---- MODULE Spec2Model ----
(***************************************************************************)
(* Model of data_manipulation/raw_data_processing.py: the conversion of a  *)
(* sensor log and a ground-truth log into uniform 10 ms tables.            *)
(*                                                                         *)
(* Representation.                                                         *)
(*  - A Python string is a sequence of character codes: the digits are     *)
(*    0..9 and ':' is 10 (in ASCII ':' follows '9', so the order of the    *)
(*    codes is the order Python compares characters in).                   *)
(*  - A float cell is NaN (the empty tuple) or an exact rational <<n, d>>  *)
(*    in lowest terms with d > 0: floating-point rounding is abstracted.   *)
(*  - A DataFrame is a record [index, columns, data]: the row labels, the  *)
(*    column names and one function column -> cell per row.                *)
(***************************************************************************)
EXTENDS Integers, Sequences, FiniteSets, TLC

VARIABLES sensors_xml,          \* root of the sensor log: sequence of elements
          ground_truth_xml,     \* root of the ground-truth log
          pc,                   \* position of the driver loop body
          times_list,           \* the list last handed to calculate_ms_interval
          full_timestamps_list, \* the grid it returned
          df,                   \* the frame built by a converter (mutated by a generator)
          out_df,               \* the frame returned by a generator
          outcome               \* "none", "ok", "exit" (print + exit(-1)), "IndexError", "ValueError"

vars == <<sensors_xml, ground_truth_xml, pc, times_list, full_timestamps_list,
          df, out_df, outcome>>

----------------------------------------------------------------------------
(* Bounds of the model. *)

MaxElems == 3     \* elements in a sensor log
MaxTruth == 2     \* records in a ground-truth log

----------------------------------------------------------------------------
(* Strings. *)

Colon == 10

Min(a, b) == IF a <= b THEN a ELSE b

\* Python's str comparison: lexicographic by character, a proper prefix is smaller.
StrLess(s, t) ==
    \E k \in 1..(Min(Len(s), Len(t)) + 1) :
        /\ \A j \in 1..(k-1) : s[j] = t[j]
        /\ \/ (k = Len(s) + 1 /\ k <= Len(t))
           \/ (k <= Len(s) /\ k <= Len(t) /\ s[k] < t[k])

StrLessEq(s, t) == s = t \/ StrLess(s, t)

\* s[:n]
Prefix(s, n) == SubSeq(s, 1, Min(n, Len(s)))

\* s.split(':')
RECURSIVE Split(_)
Split(s) ==
    IF \A i \in 1..Len(s) : s[i] # Colon
    THEN <<s>>
    ELSE LET k == CHOOSE i \in 1..Len(s) :
                      s[i] = Colon /\ \A j \in 1..(i-1) : s[j] # Colon
         IN  <<SubSeq(s, 1, k-1)>> \o Split(SubSeq(s, k+1, Len(s)))

\* int(field) for a non-empty field of digits
RECURSIVE IntOf(_)
IntOf(f) == IF Len(f) = 0 THEN 0
            ELSE 10 * IntOf(SubSeq(f, 1, Len(f)-1)) + f[Len(f)]

\* str(n) for n >= 0
RECURSIVE Str(_)
Str(n) == IF n < 10 THEN <<n>> ELSE Str(n \div 10) \o <<n % 10>>

\* f"{n:02d}" for n >= 0
Pad2(n) == IF n < 10 THEN <<0, n>> ELSE Str(n)

\* ':'.join(parts)
RECURSIVE Join(_)
Join(parts) == IF Len(parts) = 0 THEN <<>>
               ELSE IF Len(parts) = 1 THEN parts[1]
               ELSE parts[1] \o <<Colon>> \o Join(Tail(parts))

\* list(dict.fromkeys(xs)): the distinct entries in order of first occurrence
RECURSIVE FromKeys(_)
FromKeys(xs) ==
    IF Len(xs) = 0 THEN <<>>
    ELSE LET init == SubSeq(xs, 1, Len(xs)-1)
             last == xs[Len(xs)]
         IN  IF \E i \in 1..Len(init) : init[i] = last
             THEN FromKeys(init)
             ELSE Append(FromKeys(init), last)

----------------------------------------------------------------------------
(* calculate_ms_interval *)

\* h*3600000 + m*60000 + s*1000 + c*10 of the four fields of a split timestamp
FieldsToMs(f) ==
    IntOf(f[1]) * 60 * 60 * 1000 + IntOf(f[2]) * 60 * 1000 + IntOf(f[3]) * 1000
        + IntOf(f[4]) * 10

\* the hour zero-padded like the other fields
FormatMs_padded_hour(curr_miliseconds) ==
    Join(<<Pad2(curr_miliseconds \div 3600000),
           Pad2((curr_miliseconds % 3600000) \div 60000),
           Pad2(((curr_miliseconds % 3600000) % 60000) \div 1000),
           Pad2((((curr_miliseconds % 3600000) % 60000) % 1000) \div 10)>>)

\* the string built for one grid entry
FormatMs(curr_miliseconds) ==
    LET hour       == Str(curr_miliseconds \div 3600000)
        minute     == Pad2((curr_miliseconds % 3600000) \div 60000)
        second     == Pad2(((curr_miliseconds % 3600000) % 60000) \div 1000)
        milisecond == Pad2((((curr_miliseconds % 3600000) % 60000) % 1000) \div 10)
    IN  Join(<<hour, minute, second, milisecond>>)

\* the unpacking "a, b, c, d = s.split(':')" and the int() calls succeed
Unpacks(s) == LET f == Split(s)
              IN  Len(f) = 4 /\ \A i \in 1..4 : Len(f[i]) > 0

\* range(ms_range_with_interval) in place of range(ms_range_with_interval+1)
calculate_ms_interval_short(tl) ==
    IF Len(tl) = 0
    THEN [outcome |-> "IndexError", value |-> <<>>]
    ELSE IF ~Unpacks(tl[1]) \/ ~Unpacks(tl[Len(tl)])
    THEN [outcome |-> "ValueError", value |-> <<>>]
    ELSE LET time_init == FieldsToMs(Split(tl[1]))
             time_end  == FieldsToMs(Split(tl[Len(tl)]))
             ms_range_with_interval == (time_end - time_init) \div 10
         IN  [outcome |-> "ok",
              value   |-> [ms \in 1..ms_range_with_interval |->
                              FormatMs(time_init + (ms - 1) * 10)]]

calculate_ms_interval(tl) ==
    IF Len(tl) = 0
    THEN [outcome |-> "IndexError", value |-> <<>>]
    ELSE IF ~Unpacks(tl[1]) \/ ~Unpacks(tl[Len(tl)])
    THEN [outcome |-> "ValueError", value |-> <<>>]
    ELSE LET time_init == FieldsToMs(Split(tl[1]))
             time_end  == FieldsToMs(Split(tl[Len(tl)]))
             milisec_range == time_end - time_init
             ms_range_with_interval == milisec_range \div 10
         IN  [outcome |-> "ok",
              value   |-> [ms \in 1..(ms_range_with_interval + 1) |->
                              FormatMs(time_init + (ms - 1) * 10)]]

----------------------------------------------------------------------------
(* Float cells: NaN or an exact rational. *)

NaN == <<>>

Abs(n) == IF n < 0 THEN -n ELSE n

RECURSIVE Gcd(_, _)
Gcd(a, b) == IF b = 0 THEN a ELSE Gcd(b, a % b)

\* n/d in lowest terms, d > 0
Rat(n, d) == LET g == Gcd(Abs(n), d) IN <<n \div g, d \div g>>

\* float(attribute) of a decimal string holding the integer n
Float(n) == <<n, 1>>

\* np.sqrt of a perfect square (the model's vectors have integer norms)
Sqrt(n) == CHOOSE r \in 0..n : r * r = n

\* method='pad': the previous valid value is repeated
Linear_pad(vp, vq, p, q, i) == vp

\* v_p + (v_q - v_p) * (i - p) / (q - p)
Linear(vp, vq, p, q, i) ==
    Rat(vp[1] * vq[2] * (q - p) + (vq[1] * vp[2] - vp[1] * vq[2]) * (i - p),
        vp[2] * vq[2] * (q - p))

SetMax(S) == CHOOSE x \in S : \A y \in S : y <= x
SetMin(S) == CHOOSE x \in S : \A y \in S : x <= y

\* Series.interpolate(method='linear') with pandas' defaults
\* (limit_direction='forward', no limit_area) on the cells of one column:
\* a NaN with no valid cell before it stays NaN, a NaN with valid cells on both
\* sides is interpolated over the row positions, and a NaN after the last valid
\* cell takes the last valid value.
\* limit_area='inside': nothing is filled after the last valid cell
InterpolateTail_inside(cells, i) == NaN

InterpolateTail(cells, i) ==
    cells[SetMax({p \in 1..(i-1) : cells[p] # NaN})]

InterpolateCells(cells) ==
    [i \in 1..Len(cells) |->
        IF cells[i] # NaN THEN cells[i]
        ELSE LET before == {p \in 1..(i-1) : cells[p] # NaN}
                 after  == {q \in (i+1)..Len(cells) : cells[q] # NaN}
             IN  IF before = {} THEN NaN
                 ELSE IF after = {} THEN InterpolateTail(cells, i)
                 ELSE Linear(cells[SetMax(before)], cells[SetMin(after)],
                             SetMax(before), SetMin(after), i)]

----------------------------------------------------------------------------
(* DataFrames. *)

Range(s) == {s[i] : i \in 1..Len(s)}

\* pd.DataFrame(np.nan, index=index, columns=columns)
NewFrame(index, columns) ==
    [index   |-> index,
     columns |-> columns,
     data    |-> [i \in 1..Len(index) |-> [c \in Range(columns) |-> NaN]]]

\* frame.at[label, col] = v: sets the cell of the row(s) labelled label; a label
\* that is not in the index is appended as a new row (setting with enlargement).
At(frame, label, col, v) ==
    IF \E i \in 1..Len(frame.index) : frame.index[i] = label
    THEN [frame EXCEPT !.data =
             [i \in 1..Len(frame.index) |->
                 IF frame.index[i] = label
                 THEN [frame.data[i] EXCEPT ![col] = v]
                 ELSE frame.data[i]]]
    ELSE [frame EXCEPT !.index = Append(frame.index, label),
                       !.data  = Append(frame.data,
                                   [c \in Range(frame.columns) |->
                                       IF c = col THEN v ELSE NaN])]

\* frame[col] = v: a new column (or the existing one) filled with v
SetColumn(frame, col, v) ==
    [index   |-> frame.index,
     columns |-> IF col \in Range(frame.columns) THEN frame.columns
                 ELSE Append(frame.columns, col),
     data    |-> [i \in 1..Len(frame.index) |->
                     [c \in Range(frame.columns) \cup {col} |->
                         IF c = col THEN v ELSE frame.data[i][c]]]]

\* frame[mask]: the rows whose position is in keep, in frame order
Positions(n, keep) == SelectSeq([i \in 1..n |-> i], LAMBDA i : i \in keep)

TakeRows(frame, keep) ==
    LET pos == Positions(Len(frame.index), keep)
    IN  [index   |-> [k \in 1..Len(pos) |-> frame.index[pos[k]]],
         columns |-> frame.columns,
         data    |-> [k \in 1..Len(pos) |-> frame.data[pos[k]]]]

\* frame[frame.index >= s] and frame[frame.index <= s]: comparisons of str
IndexGE(frame, s) ==
    TakeRows(frame, {i \in 1..Len(frame.index) : StrLessEq(s, frame.index[i])})

IndexLE(frame, s) ==
    TakeRows(frame, {i \in 1..Len(frame.index) : StrLessEq(frame.index[i], s)})

ColumnCells(frame, col) == [i \in 1..Len(frame.index) |-> frame.data[i][col]]

\* frame.loc[:, col].interpolate(inplace=True): the column selected is a view
\* of the frame, so the frame's column is the one filled
InterpolateColumn(frame, col) ==
    LET filled == InterpolateCells(ColumnCells(frame, col))
    IN  [frame EXCEPT !.data =
            [i \in 1..Len(frame.index) |-> [frame.data[i] EXCEPT ![col] = filled[i]]]]

\* frame.interpolate(method='linear'): every column
Interpolate(frame) ==
    [frame EXCEPT !.data =
        [i \in 1..Len(frame.index) |->
            [c \in Range(frame.columns) |->
                InterpolateCells(ColumnCells(frame, c))[i]]]]

Defined(row) == {c \in DOMAIN row : row[c] # NaN}

\* more than n in place of at least n
Dropna_strict(frame, thresh) ==
    TakeRows(frame, {i \in 1..Len(frame.index) :
                        Cardinality(Defined(frame.data[i])) > thresh})

\* frame.dropna(thresh=n): keeps the rows with at least n non-NaN cells
Dropna(frame, thresh) ==
    TakeRows(frame, {i \in 1..Len(frame.index) :
                        Cardinality(Defined(frame.data[i])) >= thresh})

EmptyFrame == NewFrame(<<>>, <<>>)

----------------------------------------------------------------------------
(* The converters: sensor log -> frame. *)

IMU_COLUMNS == <<"ax", "ay", "az", "gx", "gy", "gz", "mx", "my", "mz",
                 "a_total", "g_total", "m_total">>

\* f'{sensor}x', f'{sensor}y', f'{sensor}z', f'{sensor}_total'
SensorColumn(sensor, suffix) == sensor \o suffix

\* the magnitude is not written
WriteReading_no_total(frame, element) ==
    LET st == element.st
        sensor == element.tag
        wx == At(frame, st, SensorColumn(sensor, "x"), Float(element.x))
        wy == At(wx, st, SensorColumn(sensor, "y"), Float(element.y))
    IN  At(wy, st, SensorColumn(sensor, "z"), Float(element.z))

\* the four writes of one a/g/m element
WriteReading(frame, element) ==
    LET st == element.st
        sensor == element.tag
        wx == At(frame, st, SensorColumn(sensor, "x"), Float(element.x))
        wy == At(wx, st, SensorColumn(sensor, "y"), Float(element.y))
        wz == At(wy, st, SensorColumn(sensor, "z"), Float(element.z))
    IN  At(wz, st, SensorColumn(sensor, "_total"),
           Float(Sqrt(element.x * element.x + element.y * element.y
                        + element.z * element.z)))

\* the loop "for element in root" over the first k elements
RECURSIVE WriteReadings(_, _, _)
WriteReadings(frame, root, k) ==
    IF k = 0 THEN frame
    ELSE LET prev == WriteReadings(frame, root, k - 1)
         IN  IF root[k].tag \in {"a", "g", "m"}
             THEN WriteReading(prev, root[k])
             ELSE prev

Failed(what, tl) ==
    [outcome |-> what, times_list |-> tl, grid |-> <<>>, frame |-> EmptyFrame]

xml_imu_sensors_converter_no_interpol(root) ==
    IF Len(root) < 1 THEN Failed("exit", <<>>)
    ELSE LET xml_timestamps == [i \in 1..Len(root) |-> root[i].st]
             tl   == FromKeys(xml_timestamps)
             grid == calculate_ms_interval(tl)
         IN  IF grid.outcome # "ok" THEN Failed(grid.outcome, tl)
             ELSE [outcome    |-> "ok",
                   times_list |-> tl,
                   grid       |-> grid.value,
                   frame      |-> WriteReadings(NewFrame(grid.value, IMU_COLUMNS),
                                                root, Len(root))]

xml_imu_sensors_converter(root) ==
    LET r == xml_imu_sensors_converter_no_interpol(root)
    IN  IF r.outcome # "ok" THEN r
        ELSE [r EXCEPT !.frame = Interpolate(r.frame)]

\* the 'st' of the 'wr' elements, and the 'b' of their subtags, in document order
RECURSIVE WifiTimestamps(_)
WifiTimestamps(root) ==
    IF Len(root) = 0 THEN <<>>
    ELSE LET init == WifiTimestamps(SubSeq(root, 1, Len(root) - 1))
             last == root[Len(root)]
         IN  IF last.tag = "wr" THEN Append(init, last.st) ELSE init

RECURSIVE RawApIds(_)
RawApIds(root) ==
    IF Len(root) = 0 THEN <<>>
    ELSE LET init == RawApIds(SubSeq(root, 1, Len(root) - 1))
             last == root[Len(root)]
         IN  IF last.tag = "wr"
             THEN init \o [j \in 1..Len(last.subtags) |-> last.subtags[j].b]
             ELSE init

\* the writes of one 'wr' element: one per subtag
RECURSIVE WriteScan(_, _, _, _)
WriteScan(frame, st, subtags, j) ==
    IF j = 0 THEN frame
    ELSE At(WriteScan(frame, st, subtags, j - 1), st, subtags[j].b,
            Float(subtags[j].s))

RECURSIVE WriteScans(_, _, _)
WriteScans(frame, root, k) ==
    IF k = 0 THEN frame
    ELSE LET prev == WriteScans(frame, root, k - 1)
         IN  IF root[k].tag = "wr"
             THEN WriteScan(prev, root[k].st, root[k].subtags, Len(root[k].subtags))
             ELSE prev

xml_wifi_converter(root) ==
    IF Len(root) < 1 THEN Failed("exit", <<>>)
    ELSE LET tl          == FromKeys(WifiTimestamps(root))
             ap_ids_list == FromKeys(RawApIds(root))
             grid        == calculate_ms_interval(tl)
         IN  IF grid.outcome # "ok" THEN Failed(grid.outcome, tl)
             ELSE [outcome    |-> "ok",
                   times_list |-> tl,
                   grid       |-> grid.value,
                   frame      |-> WriteScans(NewFrame(grid.value, ap_ids_list),
                                             root, Len(root))]

----------------------------------------------------------------------------
(* The generators: frame + ground-truth log -> frame. *)

TimeWidth == 11

\* the loop "for element in root" of the generators over the first k records
RECURSIVE WriteLocations(_, _, _)
WriteLocations(frame, root, k) ==
    IF k = 0 THEN frame
    ELSE LET prev      == WriteLocations(frame, root, k - 1)
             timestamp == Prefix(root[k].time, TimeWidth)
         IN  At(At(prev, timestamp, "lat", Float(root[k].lat)),
                timestamp, "long", Float(root[k].long))

\* the frame after the lat/long columns are added and the records written:
\* the caller's frame, changed in place
Merged(frame, root) ==
    WriteLocations(SetColumn(SetColumn(frame, "lat", NaN), "long", NaN),
                   root, Len(root))

\* the two index filters
Trimmed(frame, root) ==
    LET first_loc_timestamp == Prefix(root[1].time, TimeWidth)
        last_loc_timestamp  == Prefix(root[Len(root)].time, TimeWidth)
    IN  IndexLE(IndexGE(Merged(frame, root), first_loc_timestamp),
                last_loc_timestamp)

Thresh == 3

\* the two in-place column interpolations and the dropna of the wifi generator
WifiFinish(t) ==
    Dropna(InterpolateColumn(InterpolateColumn(t, "lat"), "long"), Thresh)

\* what each generator does to the trimmed frame before returning it
Finish(name, t) ==
    IF name = "imu_sensor_and_position_generator" THEN Interpolate(t)
    ELSE IF name = "wifi_and_position_generator" THEN WifiFinish(t)
    ELSE t

\* root[0] of an empty root raises before the "if root.__len__() < 1" check runs
Generated(name, frame, root) ==
    IF Len(root) = 0
    THEN [outcome |-> "IndexError", merged |-> frame, frame |-> EmptyFrame]
    ELSE IF Len(root) < 1
    THEN [outcome |-> "exit", merged |-> frame, frame |-> EmptyFrame]
    ELSE [outcome |-> "ok", merged |-> Merged(frame, root),
          frame |-> Finish(name, Trimmed(frame, root))]

imu_sensor_and_position_generator(sensors_df, root) ==
    Generated("imu_sensor_and_position_generator", sensors_df, root)

imu_sensor_and_position_generator_pos_interpol(sensors_df, root) ==
    Generated("imu_sensor_and_position_generator_pos_interpol", sensors_df, root)

wifi_and_position_generator(wifi_df, root) ==
    Generated("wifi_and_position_generator", wifi_df, root)

\* get_ground_truth
get_ground_truth(root) ==
    IF Len(root) < 1 THEN Failed("exit", <<>>)
    ELSE LET timestamps == [i \in 1..Len(root) |-> Prefix(root[i].time, TimeWidth)]
             tl == FromKeys(timestamps)
         IN  [outcome    |-> "ok",
              times_list |-> tl,
              grid       |-> <<>>,
              frame      |-> WriteLocations(NewFrame(tl, <<"lat", "long">>),
                                            root, Len(root))]

----------------------------------------------------------------------------
(* The input documents. *)

\* 'st' attributes: "9:59:59:98", "9:59:59:99", "10:00:00:00", "10:00:00:01"
SensorTimes ==
    << <<9, 10, 5, 9, 10, 5, 9, 10, 9, 8>>,
       <<9, 10, 5, 9, 10, 5, 9, 10, 9, 9>>,
       <<1, 0, 10, 0, 0, 10, 0, 0, 10, 0, 0>>,
       <<1, 0, 10, 0, 0, 10, 0, 0, 10, 0, 1>> >>

\* 'time' attributes, one digit longer: "9:59:59:985", "10:00:00:001",
\* "10:00:00:009", "10:00:00:013", "10:00:00:024"
TruthTimes ==
    << <<9, 10, 5, 9, 10, 5, 9, 10, 9, 8, 5>>,
       <<1, 0, 10, 0, 0, 10, 0, 0, 10, 0, 0, 1>>,
       <<1, 0, 10, 0, 0, 10, 0, 0, 10, 0, 0, 9>>,
       <<1, 0, 10, 0, 0, 10, 0, 0, 10, 0, 1, 3>>,
       <<1, 0, 10, 0, 0, 10, 0, 0, 10, 0, 2, 4>> >>

\* the same with "10:00:00:05", for logs that leave gaps in the grid
GridTimes == Append(SensorTimes, <<1, 0, 10, 0, 0, 10, 0, 0, 10, 0, 5>>)

\* an 'a', 'g' or 'm' element
Reading(tag, st, v) ==
    [tag |-> tag, st |-> st, x |-> v[1], y |-> v[2], z |-> v[3], subtags |-> <<>>]

\* a 'wr' element with its nested elements
Scan(st, subtags) ==
    [tag |-> "wr", st |-> st, x |-> 0, y |-> 0, z |-> 0, subtags |-> subtags]

Subtag(b, s) == [b |-> b, s |-> s]

\* a ground-truth record
Truth(time, lat, long) == [time |-> time, lat |-> lat, long |-> long]

ImuElements ==
    UNION {{Reading("a", st, <<3, 4, 0>>), Reading("a", st, <<1, 2, 2>>),
            Reading("g", st, <<0, 0, 5>>), Reading("m", st, <<2, 3, 6>>),
            Scan(st, <<>>)} : st \in Range(SensorTimes)}

WifiElements ==
    UNION {{Scan(st, <<Subtag("ap1", -40)>>),
            Scan(st, <<Subtag("ap2", -50), Subtag("ap1", -45)>>),
            Scan(st, <<Subtag("ap1", -42), Subtag("ap2", -52), Subtag("ap3", -60)>>),
            Scan(st, <<>>),
            Reading("a", st, <<3, 4, 0>>)} : st \in Range(SensorTimes)}

GridElements ==
    UNION {{Reading("a", st, <<3, 4, 0>>), Scan(st, <<Subtag("ap1", -40)>>)} :
              st \in Range(GridTimes)}

TruthRecords ==
    UNION {{Truth(t, 10, 20), Truth(t, 14, 26)} : t \in Range(TruthTimes)}

\* the logs of at most n elements drawn from S
Logs(S, n) == UNION {[1..k -> S] : k \in 0..n}

\* the position of a timestamp in the recording order
Position(st) == CHOOSE i \in 1..Len(SensorTimes) : SensorTimes[i] = st

\* the log is in recording order
Recorded(log) ==
    \A i \in 1..(Len(log) - 1) : Position(log[i].st) <= Position(log[i+1].st)

NominalTruth ==
    << Truth(TruthTimes[2], 10, 20), Truth(TruthTimes[4], 14, 26) >>

\* logs spanning SensorTimes[i]..SensorTimes[j] with wifi and IMU content
SpanLogs ==
    {<< Scan(SensorTimes[i],
             <<Subtag("ap1", -42), Subtag("ap2", -52), Subtag("ap3", -60)>>),
        Reading("a", SensorTimes[i], <<3, 4, 0>>),
        Scan(SensorTimes[j], <<Subtag("ap1", -40)>>) >> :
            i \in 1..Len(SensorTimes), j \in 1..Len(SensorTimes)}

----------------------------------------------------------------------------
(* The driver: one pass of the loop body over a (sensor log, ground truth)  *)
(* pair. pc names the function called last, outcome how it ended.          *)

Init ==
    /\ \/ /\ sensors_xml \in {log \in Logs(ImuElements, MaxElems) : Recorded(log)}
          /\ ground_truth_xml = NominalTruth
       \/ /\ sensors_xml \in {log \in Logs(WifiElements, MaxElems) : Recorded(log)}
          /\ ground_truth_xml = NominalTruth
       \/ /\ sensors_xml \in Logs(GridElements, MaxElems)
          /\ ground_truth_xml = NominalTruth
       \/ /\ sensors_xml \in SpanLogs
          /\ ground_truth_xml \in Logs(TruthRecords, MaxTruth)
    /\ pc = "start"
    /\ times_list = <<>>
    /\ full_timestamps_list = <<>>
    /\ df = EmptyFrame
    /\ out_df = EmptyFrame
    /\ outcome = "none"

\* a converter was called on the sensor log
Converted(name, r) ==
    /\ pc = "start"
    /\ pc' = name
    /\ outcome' = r.outcome
    /\ times_list' = r.times_list
    /\ full_timestamps_list' = r.grid
    /\ df' = r.frame
    /\ UNCHANGED <<sensors_xml, ground_truth_xml, out_df>>

\* a generator was called on the converter's frame and the ground-truth log
Located(after, name, g) ==
    /\ pc = after
    /\ outcome = "ok"
    /\ pc' = name
    /\ outcome' = g.outcome
    /\ df' = g.merged
    /\ out_df' = g.frame
    /\ UNCHANGED <<sensors_xml, ground_truth_xml, times_list, full_timestamps_list>>

XmlImuSensorsConverter ==
    Converted("xml_imu_sensors_converter", xml_imu_sensors_converter(sensors_xml))

XmlImuSensorsConverterNoInterpol ==
    Converted("xml_imu_sensors_converter_no_interpol",
              xml_imu_sensors_converter_no_interpol(sensors_xml))

XmlWifiConverter ==
    Converted("xml_wifi_converter", xml_wifi_converter(sensors_xml))

GetGroundTruth ==
    /\ pc = "start"
    /\ pc' = "get_ground_truth"
    /\ outcome' = get_ground_truth(ground_truth_xml).outcome
    /\ out_df' = get_ground_truth(ground_truth_xml).frame
    /\ UNCHANGED <<sensors_xml, ground_truth_xml, times_list, full_timestamps_list, df>>

ImuSensorAndPositionGenerator ==
    Located("xml_imu_sensors_converter", "imu_sensor_and_position_generator",
            imu_sensor_and_position_generator(df, ground_truth_xml))

ImuSensorAndPositionGeneratorPosInterpol ==
    Located("xml_imu_sensors_converter_no_interpol",
            "imu_sensor_and_position_generator_pos_interpol",
            imu_sensor_and_position_generator_pos_interpol(df, ground_truth_xml))

WifiAndPositionGenerator ==
    Located("xml_wifi_converter", "wifi_and_position_generator",
            wifi_and_position_generator(df, ground_truth_xml))

Next ==
    \/ XmlImuSensorsConverter
    \/ XmlImuSensorsConverterNoInterpol
    \/ XmlWifiConverter
    \/ GetGroundTruth
    \/ ImuSensorAndPositionGenerator
    \/ ImuSensorAndPositionGeneratorPosInterpol
    \/ WifiAndPositionGenerator

Spec == Init /\ [][Next]_vars

----------------------------------------------------------------------------
(* Vocabulary of the properties. *)

\* a timestamp string as milliseconds: h*3600000 + m*60000 + s*1000 + c*10
Ms(s) == FieldsToMs(Split(s))

\* the functions that hand a list to calculate_ms_interval
GridBuilders == {"xml_imu_sensors_converter",
                 "xml_imu_sensors_converter_no_interpol",
                 "xml_wifi_converter"}

\* the list handed to calculate_ms_interval by the function pc names
Handed == IF pc = "xml_wifi_converter"
          THEN FromKeys(WifiTimestamps(sensors_xml))
          ELSE FromKeys([i \in 1..Len(sensors_xml) |-> sensors_xml[i].st])

\* a list of timestamps in non-decreasing time order
TimeOrdered(tl) == \A i \in 1..(Len(tl) - 1) : Ms(tl[i]) <= Ms(tl[i+1])

----------------------------------------------------------------------------
(* C1: for a non-empty list whose first timestamp is not later than its    *)
(* last, the grid has (lastMs - firstMs) / 10 + 1 entries and consecutive  *)
(* entries are exactly 10 ms apart.                                        *)
GridLengthAndStep ==
    (/\ pc \in GridBuilders
     /\ Len(Handed) > 0
     /\ Ms(Handed[1]) <= Ms(Handed[Len(Handed)]))
    => /\ outcome = "ok"
       /\ times_list = Handed
       /\ Len(full_timestamps_list)
            = (Ms(Handed[Len(Handed)]) - Ms(Handed[1])) \div 10 + 1
       /\ \A i \in 1..(Len(full_timestamps_list) - 1) :
             Ms(full_timestamps_list[i+1]) - Ms(full_timestamps_list[i]) = 10

\* the spec's scenario: ["10:00:00:00", "10:00:00:05"] gives the 6 entries
\* 10:00:00:00 .. 10:00:00:05
GridOfSixReached ==
    /\ pc \in GridBuilders
    /\ times_list = <<GridTimes[3], GridTimes[5]>>
    /\ Len(full_timestamps_list) = 6
    /\ full_timestamps_list[1] = GridTimes[3]
    /\ full_timestamps_list[2] = GridTimes[4]
    /\ full_timestamps_list[6] = GridTimes[5]

(* C2: the grid of a non-empty time-ordered list is strictly increasing in *)
(* time, starts with the string of the earliest input timestamp and ends   *)
(* with the string of the latest; one distinct timestamp gives the grid of *)
(* that timestamp alone.                                                   *)
GridEndsAtObservedExtremes ==
    (/\ pc \in GridBuilders
     /\ Len(Handed) > 0
     /\ TimeOrdered(Handed))
    => /\ outcome = "ok"
       /\ Len(full_timestamps_list) >= 1
       /\ \A i \in 1..(Len(full_timestamps_list) - 1) :
             Ms(full_timestamps_list[i]) < Ms(full_timestamps_list[i+1])
       /\ full_timestamps_list[1] \in Range(Handed)
       /\ full_timestamps_list[Len(full_timestamps_list)] \in Range(Handed)
       /\ \A j \in 1..Len(Handed) :
             /\ Ms(full_timestamps_list[1]) <= Ms(Handed[j])
             /\ Ms(Handed[j]) <= Ms(full_timestamps_list[Len(full_timestamps_list)])
       /\ Len(Handed) = 1 => full_timestamps_list = Handed

\* a grid that runs from the one-digit hour into the two-digit hour
GridAcrossHoursReached ==
    /\ pc \in GridBuilders
    /\ TimeOrdered(times_list)
    /\ Len(times_list) >= 2
    /\ full_timestamps_list = SensorTimes

\* a grid of one entry built from a repeated timestamp
GridOfOneReached ==
    /\ pc \in GridBuilders
    /\ Len(sensors_xml) >= 2
    /\ Len(times_list) = 1
    /\ full_timestamps_list = times_list

(* C10: an empty list of timestamps ends in the designated empty-input     *)
(* outcome, for a sensor log with no element and for a wifi conversion of  *)
(* a log with no 'wr' element.                                             *)
EmptyTimestampsEndInExit ==
    (pc \in GridBuilders /\ Len(Handed) = 0) => outcome = "exit"

----------------------------------------------------------------------------
(* Vocabulary of the properties about frames. *)

Triads == {"a", "g", "m"}

TriadColumns(t) == {t \o "x", t \o "y", t \o "z", t \o "_total"}

Rows(frame) == 1..Len(frame.index)

\* the elements of the sensor log that write column col of the row labelled label
Writers(col, label) ==
    {k \in 1..Len(sensors_xml) :
        /\ sensors_xml[k].tag \in Triads
        /\ sensors_xml[k].st = label
        /\ col \in TriadColumns(sensors_xml[k].tag)}

\* the rows of df whose cell in column col was written by a raw reading
RawRows(col) == {i \in Rows(df) : Writers(col, df.index[i]) # {}}

\* the integer a raw reading wrote there (the last write wins)
RawValue(col, label) ==
    LET e == sensors_xml[SetMax(Writers(col, label))]
    IN  IF col = e.tag \o "x" THEN e.x
        ELSE IF col = e.tag \o "y" THEN e.y
        ELSE IF col = e.tag \o "z" THEN e.z
        ELSE CHOOSE r \in 0..(e.x * e.x + e.y * e.y + e.z * e.z) :
                 r * r = e.x * e.x + e.y * e.y + e.z * e.z

Cell(i, col) == df.data[i][col]

Assembled == pc = "xml_imu_sensors_converter" /\ outcome = "ok"

----------------------------------------------------------------------------
(* C3, as stated: after the converter, every cell before the first or      *)
(* after the last raw-written cell of its column is undefined.             *)
NoExtrapolation ==
    Assembled =>
        \A col \in Range(IMU_COLUMNS) : \A i \in Rows(df) :
            (/\ RawRows(col) # {}
             /\ (i < SetMin(RawRows(col)) \/ i > SetMax(RawRows(col))))
            => Cell(i, col) = NaN

(* C3, amended: every cell before the first raw-written cell of its column *)
(* is undefined, every cell after the last raw-written cell holds the      *)
(* value of that last raw-written cell, and a column no reading wrote is   *)
(* undefined throughout.                                                   *)
NoBackwardExtrapolationTailRepeatsLast ==
    Assembled =>
        \A col \in Range(IMU_COLUMNS) : \A i \in Rows(df) :
            /\ RawRows(col) = {} => Cell(i, col) = NaN
            /\ (RawRows(col) # {} /\ i < SetMin(RawRows(col)))
                  => Cell(i, col) = NaN
            /\ (RawRows(col) # {} /\ i > SetMax(RawRows(col)))
                  => Cell(i, col)
                       = <<RawValue(col, df.index[SetMax(RawRows(col))]), 1>>

\* a column with an undefined head, a raw-written cell and a filled tail
HeadAndTailReached ==
    /\ Assembled
    /\ \E col \in Range(IMU_COLUMNS) :
          /\ RawRows(col) # {}
          /\ 1 < SetMin(RawRows(col))
          /\ SetMax(RawRows(col)) < Len(df.index)
          /\ Cell(1, col) = NaN
          /\ Cell(Len(df.index), col) # NaN

(* C4: after the converter no column has an undefined cell between two     *)
(* defined cells; a cell not written by a reading that lies between its    *)
(* nearest raw-written neighbours p < i < q holds                          *)
(* v_p + (v_q - v_p) * (i - p) / (q - p); a raw-written cell holds the     *)
(* value written.                                                          *)
GapsFilledLinearly ==
    Assembled =>
        \A col \in Range(IMU_COLUMNS) : \A i \in Rows(df) :
            /\ (\E a \in 1..(i-1) : Cell(a, col) # NaN)
                  /\ (\E b \in (i+1)..Len(df.index) : Cell(b, col) # NaN)
               => Cell(i, col) # NaN
            /\ i \in RawRows(col)
               => Cell(i, col) = <<RawValue(col, df.index[i]), 1>>
            /\ (/\ i \notin RawRows(col)
                /\ \E p \in RawRows(col) : p < i
                /\ \E q \in RawRows(col) : q > i)
               => LET p  == SetMax({r \in RawRows(col) : r < i})
                      q  == SetMin({r \in RawRows(col) : r > i})
                      vp == RawValue(col, df.index[p])
                      vq == RawValue(col, df.index[q])
                  IN  /\ Cell(i, col) # NaN
                      /\ Cell(i, col)[2] > 0
                      /\ Cell(i, col)[1] * (q - p)
                           = Cell(i, col)[2] * (vp * (q - p) + (vq - vp) * (i - p))

\* a gap of two cells between raw-written cells of different values
GapInterpolatedReached ==
    /\ Assembled
    /\ \E col \in Range(IMU_COLUMNS) : \E p, q \in RawRows(col) :
          /\ q = p + 3
          /\ p + 1 \notin RawRows(col)
          /\ p + 2 \notin RawRows(col)
          /\ Cell(p, col) # Cell(q, col)
          /\ Cell(p + 1, col)[2] = 3

\* t^2 = x^2 + y^2 + z^2 and t >= 0, for rational cells
IsMagnitude(t, x, y, z) ==
    /\ t[1] >= 0
    /\ t[1] * t[1] * (x[2] * y[2] * z[2]) * (x[2] * y[2] * z[2])
         = t[2] * t[2] * (  x[1] * x[1] * (y[2] * z[2]) * (y[2] * z[2])
                          + y[1] * y[1] * (x[2] * z[2]) * (x[2] * z[2])
                          + z[1] * z[1] * (x[2] * y[2]) * (x[2] * y[2]))

(* C5: in the frame the converter returns, wherever x, y and z of a triad  *)
(* are defined the magnitude of that row is sqrt(x^2 + y^2 + z^2) of the   *)
(* row's own x, y, z, in interpolated rows as in raw rows.                 *)
MagnitudeOfEveryRow ==
    Assembled =>
        \A i \in Rows(df) : \A t \in Triads :
            (/\ Cell(i, t \o "x") # NaN
             /\ Cell(i, t \o "y") # NaN
             /\ Cell(i, t \o "z") # NaN)
            => /\ Cell(i, t \o "_total") # NaN
               /\ IsMagnitude(Cell(i, t \o "_total"), Cell(i, t \o "x"),
                              Cell(i, t \o "y"), Cell(i, t \o "z"))

(* C6: in every row of a frame built by either converter, the magnitude of *)
(* a triad is undefined exactly when one of its x, y, z is: the four cells *)
(* are defined together or undefined together.                             *)
TriadDefinedTogether ==
    (/\ pc \in {"xml_imu_sensors_converter", "xml_imu_sensors_converter_no_interpol"}
     /\ outcome = "ok")
    => \A i \in Rows(df) : \A t \in Triads :
          /\ Cell(i, t \o "_total") = NaN
               <=> (\/ Cell(i, t \o "x") = NaN
                    \/ Cell(i, t \o "y") = NaN
                    \/ Cell(i, t \o "z") = NaN)
          /\ \/ \A c \in TriadColumns(t) : Cell(i, c) = NaN
             \/ \A c \in TriadColumns(t) : Cell(i, c) # NaN

\* a row filled by interpolation in one triad and empty in another
MixedRowReached ==
    /\ Assembled
    /\ \E i \in Rows(df) :
          /\ i \notin RawRows("a_total")
          /\ \A c \in TriadColumns("a") : Cell(i, c) # NaN
          /\ \A c \in TriadColumns("g") : Cell(i, c) = NaN
          /\ i \in RawRows("mx")

----------------------------------------------------------------------------
(* Vocabulary of the properties about the generators. *)

Generators == {"imu_sensor_and_position_generator",
               "imu_sensor_and_position_generator_pos_interpol",
               "wifi_and_position_generator"}

\* a raw ground-truth timestamp without its trailing sub-unit digit
Truncated(raw) == SubSeq(raw, 1, Len(raw) - 1)

FirstGT == Ms(Truncated(ground_truth_xml[1].time))
LastGT  == Ms(Truncated(ground_truth_xml[Len(ground_truth_xml)].time))

InSpan(label) == FirstGT <= Ms(label) /\ Ms(label) <= LastGT

(* C7: the generators keep exactly the rows whose timestamp, as a          *)
(* millisecond value, lies in [firstGT, lastGT]; when both are grid        *)
(* timestamps the first and last kept rows are firstGT and lastGT. (The    *)
(* wifi generator drops rows afterwards: its rows all lie in the span.)    *)
TrimKeepsGroundTruthSpan ==
    (pc \in Generators /\ outcome = "ok")
    => /\ \A j \in Rows(out_df) : InSpan(out_df.index[j])
       /\ pc # "wifi_and_position_generator"
          => /\ out_df.index = SelectSeq(df.index, InSpan)
             /\ (/\ FirstGT <= LastGT
                 /\ \E i \in 1..Len(full_timestamps_list) :
                       Ms(full_timestamps_list[i]) = FirstGT
                 /\ \E i \in 1..Len(full_timestamps_list) :
                       Ms(full_timestamps_list[i]) = LastGT)
                => /\ Len(out_df.index) > 0
                   /\ Ms(out_df.index[1]) = FirstGT
                   /\ Ms(out_df.index[Len(out_df.index)]) = LastGT

\* the trimmed frame of the wifi generator after its two interpolations,
\* from the caller's frame as the generator left it
WifiTrimmed ==
    InterpolateColumn(
        InterpolateColumn(
            IndexLE(IndexGE(df, Prefix(ground_truth_xml[1].time, TimeWidth)),
                    Prefix(ground_truth_xml[Len(ground_truth_xml)].time, TimeWidth)),
            "lat"),
        "long")

(* C8: every row the wifi generator returns has at least 3 defined fields  *)
(* among the access-point columns, lat and long, and every row of the      *)
(* trimmed frame with at least 3 defined fields is returned.               *)
WifiRowsSufficient ==
    (pc = "wifi_and_position_generator" /\ outcome = "ok")
    => /\ \A j \in Rows(out_df) :
             /\ Cardinality(Defined(out_df.data[j])) >= 3
             /\ \E i \in Rows(WifiTrimmed) :
                   /\ WifiTrimmed.index[i] = out_df.index[j]
                   /\ WifiTrimmed.data[i] = out_df.data[j]
       /\ \A i \in Rows(WifiTrimmed) :
             Cardinality(Defined(WifiTrimmed.data[i])) >= 3
             => \E j \in Rows(out_df) :
                   /\ out_df.index[j] = WifiTrimmed.index[i]
                   /\ out_df.data[j] = WifiTrimmed.data[i]
       /\ Len(out_df.index)
            = Cardinality({i \in Rows(WifiTrimmed) :
                              Cardinality(Defined(WifiTrimmed.data[i])) >= 3})

\* a returned row with exactly 3 defined fields beside a dropped row with 2
ThreeKeptTwoDroppedReached ==
    /\ pc = "wifi_and_position_generator"
    /\ outcome = "ok"
    /\ \E j \in Rows(out_df) : Cardinality(Defined(out_df.data[j])) = 3
    /\ \E i \in Rows(WifiTrimmed) : Cardinality(Defined(WifiTrimmed.data[i])) = 2

(* C9: with a ground-truth log of zero records a generator ends in the     *)
(* designated empty-input outcome and in no other failure.                 *)
EmptyGroundTruthEndsInExit ==
    (pc \in Generators /\ Len(ground_truth_xml) = 0) => outcome = "exit"

----------------------------------------------------------------------------
(* Vocabulary of the properties about the merge. *)

\* the row labels of the frame handed to the generator pc names, before the
\* generator changed it
InputIndex ==
    IF pc = "imu_sensor_and_position_generator"
    THEN xml_imu_sensors_converter(sensors_xml).frame.index
    ELSE IF pc = "imu_sensor_and_position_generator_pos_interpol"
    THEN xml_imu_sensors_converter_no_interpol(sensors_xml).frame.index
    ELSE xml_wifi_converter(sensors_xml).frame.index

\* row labels in strictly increasing time order
StrictlyIncreasing(index) ==
    \A i \in 1..(Len(index) - 1) : Ms(index[i]) < Ms(index[i+1])

(* C11: the merge of a generator writes lat/long only into rows that       *)
(* exist: the row labels after the merge are the row labels before it, no  *)
(* row is added, and the rows returned stay in strictly increasing time    *)
(* order.                                                                  *)
MergeAddsNoRow ==
    (pc \in Generators /\ outcome = "ok")
    => /\ Range(df.index) = Range(InputIndex)
       /\ Len(df.index) = Len(InputIndex)
       /\ StrictlyIncreasing(InputIndex) => StrictlyIncreasing(out_df.index)

(* C12: a raw ground-truth timestamp h:mm:ss:ccd or hh:mm:ss:ccd is keyed  *)
(* by the string without its trailing digit: get_ground_truth's rows are   *)
(* those strings, and after a generator's merge each record's lat sits in  *)
(* the row labelled by that string.                                        *)
TruncationDropsSubUnitDigit ==
    /\ (pc = "get_ground_truth" /\ outcome = "ok")
       => out_df.index
            = FromKeys([k \in 1..Len(ground_truth_xml) |->
                           Truncated(ground_truth_xml[k].time)])
    /\ (pc \in Generators /\ outcome = "ok")
       => \A k \in 1..Len(ground_truth_xml) :
             \E i \in Rows(df) :
                /\ df.index[i] = Truncated(ground_truth_xml[k].time)
                /\ df.data[i]["lat"] # NaN

(* C13: every row the wifi pipeline returns has at least one defined       *)
(* access-point signal together with defined lat and long.                 *)
WifiRowsHaveSignalAndLocation ==
    (pc = "wifi_and_position_generator" /\ outcome = "ok")
    => \A j \in Rows(out_df) :
          /\ \E c \in DOMAIN out_df.data[j] \ {"lat", "long"} :
                out_df.data[j][c] # NaN
          /\ out_df.data[j]["lat"] # NaN
          /\ out_df.data[j]["long"] # NaN

====
